---- MODULE Spec2Model ----
(***************************************************************************)
(* Capture-and-transcription pipeline of the voice recorder.               *)
(*                                                                         *)
(*   AudioRecorder        src/src/audio_recorder.py                        *)
(*   WhisperAPI           src/src/whisper_api.py                           *)
(*   TranscriptionService src/src/transcription_service.py                 *)
(*   FileManager          src/src/file_manager.py                          *)
(*                                                                         *)
(* Spec           : the recorder, one caller thread and its capture        *)
(*                  worker threads, interleaved statement by statement.    *)
(* SpecTranscribe : the transcription service, one call after another.     *)
(* SpecConfidence : _estimate_confidence on its own, text by text.         *)
(* SpecLevel      : the recorder with on_level, sessions not overlapping.  *)
(* SpecFiles      : FileManager over a directory of saved recordings.      *)
(* SpecLoudness   : _calculate_audio_level on its own, frame by frame.     *)
(***************************************************************************)
EXTENDS Integers, Sequences, FiniteSets, TLC

\* ------------------------------------------------------------------ bounds
MaxThreads == 2      \* capture workers (= accepted start() calls) per run
MaxFrames == 2       \* frames one worker reads from the device
NumListeners == 2    \* distinct level listeners the caller may register
MaxText == 2         \* characters in a text the remote service sends back
MaxChunks == 2       \* chunks (4000 frames each) in an input file
MaxTCalls == 2       \* transcription calls made on one service
MaxWords == 50       \* words in a text whose confidence is estimated
MaxPad == 1          \* whitespace characters before and after such a text
MaxFiles == 2        \* recordings in the recordings directory at one time
MaxAge == 2          \* age of a recording, in days
MaxSaved == 6        \* frames in a recording that was saved
MaxDays == 2         \* days of retention asked of cleanup_retention
MaxSamples == 2      \* samples in a frame whose level is computed

Threads == 1..MaxThreads
Listeners == 1..NumListeners
None == 0

VARIABLES
    \* AudioRecorder fields (audio_recorder.py:31-36)
    is_recording, audio_data, pyaudio_instance, stream, recording_thread,
    level_callback,
    \* capture workers: position in _recording_worker, frames read so far,
    \* and the way the worker left its try block
    wpc, wn, wexit,
    \* PortAudio side: state of each PyAudio instance and of each stream,
    \* and the instance each stream was opened on
    pas, streams, streamPa,
    \* the caller thread: position inside stop_recording, the last finished
    \* start/stop call and its return value
    cpc, lastCall,
    \* history: the buffer as the last stop_recording read it, whether that
    \* read has happened in the current session, files written so far,
    \* whether a frame was appended between the matching start and that read,
    \* and how often each level listener has been invoked
    lastRead, bufferRead, nfiles, sessionCaptured, levelCalls,
    \* TranscriptionService: whether the Vosk model and recognizer are loaded,
    \* and the hypothesis the one shared KaldiRecognizer currently holds
    recognizer, pending,
    \* the call in progress: position, operation, input file, chunks not yet
    \* read, the accumulator full_result, and the value returned
    tpc, top, tfile, tchunks, full_result, tret,
    \* history of the call in progress: outcome of is_online(), value the
    \* WhisperAPI returned, how often each collaborator was invoked, and the
    \* hypothesis the recognizer held when the call began
    online, remote, used, pending0, tcalls,
    \* the path preprocess_audio returned to the call in progress (line 192):
    \* "temp_normalized.wav", the input path, or none yet
    preprocessed_path,
    \* a call of _estimate_confidence on its own: the text passed, the
    \* number of words it was written with, and the value returned (none yet,
    \* or one value in tenths)
    est_text, est_words, est_out,
    \* FileManager: the recordings directory (per file name: absent, or the
    \* frames it was saved from, its size in bytes and its age in days), and
    \* the last finished call with its arguments and return value
    fm_files, fm_last,
    \* a call of _calculate_audio_level on its own: the frame passed, as its
    \* int16 samples, and the level computed for it (none yet, or one value)
    audio_chunk, level_db

recVars == <<is_recording, audio_data, pyaudio_instance, stream,
             recording_thread, level_callback, wpc, wn, wexit, pas, streams,
             streamPa, cpc, lastCall, lastRead, bufferRead, nfiles,
             sessionCaptured, levelCalls>>

trVars == <<recognizer, pending, tpc, top, tfile, tchunks, full_result, tret,
            online, remote, used, pending0, tcalls, preprocessed_path>>

estVars == <<est_text, est_words, est_out>>

fmVars == <<fm_files, fm_last>>

lvlVars == <<audio_chunk, level_db>>

vars == <<recVars, trVars, estVars, fmVars, lvlVars>>

\* ------------------------------------------------------------ AudioRecorder

\* A captured frame: the worker that read it, its index in that worker's
\* reads, and the session (accepted start) during which it was appended.
Frame(t, k, s) == <<t, k, s>>

Alive(t) == wpc[t] \notin {"unborn", "dead"}
Running == {t \in Threads : Alive(t)}
\* workers still inside the try block of _recording_worker
Capturing == {t \in Threads : wpc[t] \in {"init", "open", "reset", "loop", "read", "level"}}

InitRecorder ==
    /\ is_recording = FALSE
    /\ audio_data = <<>>
    /\ pyaudio_instance = None
    /\ stream = None
    /\ recording_thread = None
    /\ level_callback \in {None} \cup Listeners
    /\ wpc = [t \in Threads |-> "unborn"]
    /\ wn = [t \in Threads |-> 0]
    /\ wexit = [t \in Threads |-> "none"]
    /\ pas = [t \in Threads |-> "none"]
    /\ streams = [t \in Threads |-> "none"]
    /\ streamPa = [t \in Threads |-> None]
    /\ cpc = "idle"
    /\ lastCall = [op |-> "none", ret |-> "none"]
    /\ lastRead = <<>>
    /\ bufferRead = FALSE
    /\ nfiles = 0
    /\ sessionCaptured = FALSE
    /\ levelCalls = [l \in Listeners |-> 0]

callerHist == <<cpc, lastCall, lastRead, bufferRead, nfiles>>
devVars == <<pas, streams, streamPa>>
fields == <<is_recording, audio_data, pyaudio_instance, stream,
            recording_thread, level_callback>>

\* --- the caller -----------------------------------------------------------

\* StartRejected with the early return of line 131 lost: the call goes on to
\* line 135 and starts another worker
StartRejected_SpawnsAgain ==
    /\ is_recording
    /\ \E t \in Threads :
        /\ wpc[t] = "unborn"
        /\ \A u \in Threads : u < t => wpc[u] # "unborn"
        /\ recording_thread' = t
        /\ wpc' = [wpc EXCEPT ![t] = "init"]
    /\ lastCall' = [op |-> "start", ret |-> "Started"]
    /\ UNCHANGED <<trVars, estVars, fmVars, lvlVars>>
    /\ UNCHANGED <<is_recording, audio_data, pyaudio_instance, stream,
                   level_callback, wn, wexit, devVars, cpc, lastRead,
                   bufferRead, nfiles, sessionCaptured, levelCalls>>

\* start_recording, lines 129-131: a session is active
StartRejected ==
    /\ is_recording
    /\ lastCall' = [op |-> "start", ret |-> "AlreadyRecording"]
    /\ UNCHANGED <<trVars, estVars, fmVars, lvlVars>>
    /\ UNCHANGED <<fields, wpc, wn, wexit, devVars, cpc, lastRead, bufferRead,
                   nfiles, sessionCaptured, levelCalls>>

\* start_recording, lines 133-138: set the flag, create and start the thread
StartAccepted ==
    /\ ~is_recording
    /\ \E t \in Threads :
        /\ wpc[t] = "unborn"
        /\ \A u \in Threads : u < t => wpc[u] # "unborn"
        /\ is_recording' = TRUE
        /\ recording_thread' = t
        /\ wpc' = [wpc EXCEPT ![t] = "init"]
    /\ lastCall' = [op |-> "start", ret |-> "Started"]
    /\ bufferRead' = FALSE
    /\ sessionCaptured' = FALSE
    /\ lastRead' = <<>>
    /\ UNCHANGED <<trVars, estVars, fmVars, lvlVars>>
    /\ UNCHANGED <<audio_data, pyaudio_instance, stream, level_callback, wn,
                   wexit, devVars, cpc, nfiles, levelCalls>>

StartRecording ==
    /\ cpc = "idle"
    /\ (StartRejected \/ StartAccepted)

\* StopRejected with the early return of line 152 lost: the call goes on to
\* the join and the save
StopRejected_GoesOn ==
    /\ ~is_recording
    /\ cpc' = "join"
    /\ UNCHANGED <<trVars, estVars, fmVars, lvlVars>>
    /\ UNCHANGED <<fields, wpc, wn, wexit, devVars, lastCall, lastRead,
                   bufferRead, nfiles, sessionCaptured, levelCalls>>

\* stop_recording, lines 150-152: no session is active
StopRejected ==
    /\ ~is_recording
    /\ lastCall' = [op |-> "stop", ret |-> "NotRecording"]
    /\ UNCHANGED <<trVars, estVars, fmVars, lvlVars>>
    /\ UNCHANGED <<fields, wpc, wn, wexit, devVars, cpc, lastRead, bufferRead,
                   nfiles, sessionCaptured, levelCalls>>

\* stop_recording, line 154: signal the capture loop
StopSignal ==
    /\ is_recording
    /\ is_recording' = FALSE
    /\ cpc' = "join"
    /\ UNCHANGED <<trVars, estVars, fmVars, lvlVars>>
    /\ UNCHANGED <<audio_data, pyaudio_instance, stream, recording_thread,
                   level_callback, wpc, wn, wexit, devVars, lastCall, lastRead,
                   bufferRead, nfiles, sessionCaptured, levelCalls>>

StopRecording ==
    /\ cpc = "idle"
    /\ (StopRejected \/ StopSignal)

\* stop_recording, lines 157-158: join(timeout=2.0) returns when the thread
\* has ended, or when two seconds have passed with the thread still alive;
\* the code does not look at which of the two happened.
StopJoin ==
    /\ cpc = "join"
    /\ \/ recording_thread = None
       \/ ~Alive(recording_thread)
       \/ Alive(recording_thread)      \* the timeout elapsed
    /\ cpc' = "save"
    /\ UNCHANGED <<trVars, estVars, fmVars, lvlVars>>
    /\ UNCHANGED <<fields, wpc, wn, wexit, devVars, lastCall, lastRead,
                   bufferRead, nfiles, sessionCaptured, levelCalls>>

\* Permission bits of a file (read and write for user, group, other); a file
\* that wave.open(path, 'wb') creates gets all of them but those the umask
\* of the process takes away (here 022 and 077), and nothing in
\* _save_audio_data changes them afterwards.
PermBits == {"ur", "uw", "gr", "gw", "or", "ow"}
Umasks == {{"gw", "ow"}, {"gr", "gw", "or", "ow"}}
CreatedMode(umask) == PermBits \ umask

\* stop_recording, lines 161-165, with _save_audio_data, lines 173-196: an
\* empty buffer gives None; otherwise the frames are joined and written, and
\* a failure to write is caught and gives None as well. The path returned
\* is recorded with the mode its file has at that moment.
StopSave ==
    /\ cpc = "save"
    /\ lastRead' = audio_data
    /\ bufferRead' = TRUE
    /\ IF audio_data = <<>>
       THEN /\ lastCall' = [op |-> "stop", ret |-> "NoAudioCaptured"]
            /\ nfiles' = nfiles
       ELSE \/ /\ \E umask \in Umasks :
                    lastCall' = [op |-> "stop", ret |-> "Path",
                                 mode |-> CreatedMode(umask)]
               /\ nfiles' = nfiles + 1
            \/ /\ lastCall' = [op |-> "stop", ret |-> "SaveError"]
               /\ nfiles' = nfiles
    /\ cpc' = "idle"
    /\ UNCHANGED <<trVars, estVars, fmVars, lvlVars>>
    /\ UNCHANGED <<fields, wpc, wn, wexit, devVars, sessionCaptured,
                   levelCalls>>

\* on_level, line 204
OnLevel ==
    /\ cpc = "idle"
    /\ \E l \in Listeners : level_callback' = l
    /\ UNCHANGED <<trVars, estVars, fmVars, lvlVars>>
    /\ UNCHANGED <<is_recording, audio_data, pyaudio_instance, stream,
                   recording_thread, wpc, wn, wexit, devVars, cpc, lastCall, lastRead,
                   bufferRead, nfiles, sessionCaptured, levelCalls>>

\* --- the capture worker, _recording_worker ----------------------------------

Goto(t, pc) == wpc' = [wpc EXCEPT ![t] = pc]
Leave(t, how) == wexit' = [wexit EXCEPT ![t] = how]

\* line 71: pyaudio.PyAudio() returns an instance, or raises
WorkerInit(t) ==
    /\ wpc[t] = "init"
    /\ \/ /\ pas' = [pas EXCEPT ![t] = "open"]
          /\ pyaudio_instance' = t
          /\ Goto(t, "open")
          /\ UNCHANGED wexit
       \/ /\ Goto(t, "fail")
          /\ Leave(t, "init_error")
          /\ UNCHANGED <<pas, pyaudio_instance>>
    /\ UNCHANGED <<trVars, estVars, fmVars, lvlVars>>
    /\ UNCHANGED <<is_recording, audio_data, stream, recording_thread,
                   level_callback, wn, streams, streamPa, callerHist,
                   sessionCaptured, levelCalls>>

\* lines 74-80: self.pyaudio_instance.open(...); the field is read again
\* here, so None or a terminated instance raises, and so may the device
WorkerOpen(t) ==
    /\ wpc[t] = "open"
    /\ \/ /\ pyaudio_instance # None
          /\ pas[pyaudio_instance] = "open"
          /\ streams' = [streams EXCEPT ![t] = "open"]
          /\ streamPa' = [streamPa EXCEPT ![t] = pyaudio_instance]
          /\ stream' = t
          /\ Goto(t, "reset")
          /\ UNCHANGED wexit
       \/ /\ Goto(t, "fail")
          /\ Leave(t, "init_error")
          /\ UNCHANGED <<streams, streamPa, stream>>
    /\ UNCHANGED <<trVars, estVars, fmVars, lvlVars>>
    /\ UNCHANGED <<is_recording, audio_data, pyaudio_instance,
                   recording_thread, level_callback, wn, pas, callerHist,
                   sessionCaptured, levelCalls>>

\* line 83: self.audio_data = []
WorkerReset(t) ==
    /\ wpc[t] = "reset"
    /\ audio_data' = <<>>
    /\ Goto(t, "loop")
    /\ UNCHANGED <<trVars, estVars, fmVars, lvlVars>>
    /\ UNCHANGED <<is_recording, pyaudio_instance, stream, recording_thread,
                   level_callback, wn, wexit, devVars, callerHist,
                   sessionCaptured, levelCalls>>

\* line 85: while self.is_recording
WorkerLoop(t) ==
    /\ wpc[t] = "loop"
    /\ IF is_recording
       THEN Goto(t, "read") /\ UNCHANGED wexit
       ELSE Goto(t, "cs") /\ Leave(t, "stopped")
    /\ UNCHANGED <<trVars, estVars, fmVars, lvlVars>>
    /\ UNCHANGED <<fields, wn, devVars, callerHist, sessionCaptured,
                   levelCalls>>

\* lines 88-89: one blocking read of self.stream, then the append
WorkerReadOk(t) ==
    /\ wpc[t] = "read"
    /\ stream # None
    /\ streams[stream] = "open"
    /\ wn[t] < MaxFrames
    /\ wn' = [wn EXCEPT ![t] = @ + 1]
    /\ audio_data' = Append(audio_data, Frame(t, wn[t] + 1, recording_thread))
    /\ sessionCaptured' = (sessionCaptured \/ ~bufferRead)
    /\ Goto(t, "level")
    /\ UNCHANGED <<trVars, estVars, fmVars, lvlVars>>
    /\ UNCHANGED <<is_recording, pyaudio_instance, stream, recording_thread,
                   level_callback, wexit, devVars, callerHist, levelCalls>>

\* lines 96-98: the read raised (device error, or self.stream is None or
\* closed): print and break, nothing else
WorkerReadError(t) ==
    /\ wpc[t] = "read"
    /\ Goto(t, "cs")
    /\ Leave(t, "read_error")
    /\ UNCHANGED <<trVars, estVars, fmVars, lvlVars>>
    /\ UNCHANGED <<fields, wn, devVars, callerHist, sessionCaptured,
                   levelCalls>>

\* WorkerLevel with every listener ever known invoked, not the registered
\* one alone
WorkerLevel_CallsEveryListener(t) ==
    /\ wpc[t] = "level"
    /\ levelCalls' = [l \in Listeners |-> levelCalls[l] + 1]
    /\ Goto(t, "loop")
    /\ UNCHANGED <<trVars, estVars, fmVars, lvlVars>>
    /\ UNCHANGED <<fields, wn, wexit, devVars, callerHist, sessionCaptured>>

\* lines 92-94: the level listener, if one is registered; a listener that
\* raises ends the loop through the same except clause
WorkerLevel(t) ==
    /\ wpc[t] = "level"
    /\ IF level_callback = None
       THEN /\ Goto(t, "loop")
            /\ UNCHANGED <<levelCalls, wexit>>
       ELSE /\ levelCalls' = [levelCalls EXCEPT ![level_callback] = @ + 1]
            /\ \/ Goto(t, "loop") /\ UNCHANGED wexit
               \/ Goto(t, "cs") /\ Leave(t, "callback_error")
    /\ UNCHANGED <<trVars, estVars, fmVars, lvlVars>>
    /\ UNCHANGED <<fields, wn, devVars, callerHist, sessionCaptured>>

\* lines 100-102: the outer except clause
WorkerFail(t) ==
    /\ wpc[t] = "fail"
    /\ is_recording' = FALSE
    /\ Goto(t, "cs")
    /\ UNCHANGED <<trVars, estVars, fmVars, lvlVars>>
    /\ UNCHANGED <<audio_data, pyaudio_instance, stream, recording_thread,
                   level_callback, wn, wexit, devVars, callerHist,
                   sessionCaptured, levelCalls>>

\* _cleanup_audio, lines 108-113: stop and close whatever self.stream is
WorkerCloseStream(t) ==
    /\ wpc[t] = "cs"
    /\ IF stream # None
       THEN /\ streams' = [streams EXCEPT ![stream] = "closed"]
            /\ Goto(t, "cs2")
       ELSE /\ UNCHANGED streams
            /\ Goto(t, "cp")
    /\ UNCHANGED <<trVars, estVars, fmVars, lvlVars>>
    /\ UNCHANGED <<fields, wn, wexit, pas, streamPa, callerHist,
                   sessionCaptured, levelCalls>>

\* _cleanup_audio, line 114
WorkerClearStream(t) ==
    /\ wpc[t] = "cs2"
    /\ stream' = None
    /\ Goto(t, "cp")
    /\ UNCHANGED <<trVars, estVars, fmVars, lvlVars>>
    /\ UNCHANGED <<is_recording, audio_data, pyaudio_instance,
                   recording_thread, level_callback, wn, wexit, devVars,
                   callerHist, sessionCaptured, levelCalls>>

\* _cleanup_audio, lines 116-120: terminate whatever self.pyaudio_instance
\* is; PyAudio.terminate closes the streams opened on that instance
WorkerTerminate(t) ==
    /\ wpc[t] = "cp"
    /\ IF pyaudio_instance # None
       THEN /\ pas' = [pas EXCEPT ![pyaudio_instance] = "terminated"]
            /\ streams' = [s \in Threads |->
                  IF streams[s] = "open" /\ streamPa[s] = pyaudio_instance
                  THEN "closed" ELSE streams[s]]
            /\ Goto(t, "cp2")
       ELSE /\ UNCHANGED <<pas, streams>>
            /\ Goto(t, "dead")
    /\ UNCHANGED <<trVars, estVars, fmVars, lvlVars>>
    /\ UNCHANGED <<fields, wn, wexit, streamPa, callerHist, sessionCaptured,
                   levelCalls>>

\* _cleanup_audio, line 121
WorkerClearPa(t) ==
    /\ wpc[t] = "cp2"
    /\ pyaudio_instance' = None
    /\ Goto(t, "dead")
    /\ UNCHANGED <<trVars, estVars, fmVars, lvlVars>>
    /\ UNCHANGED <<is_recording, audio_data, stream, recording_thread,
                   level_callback, wn, wexit, devVars, callerHist,
                   sessionCaptured, levelCalls>>

Worker ==
    \E t \in Threads :
        \/ WorkerInit(t) \/ WorkerOpen(t) \/ WorkerReset(t) \/ WorkerLoop(t)
        \/ WorkerReadOk(t) \/ WorkerReadError(t) \/ WorkerLevel(t)
        \/ WorkerFail(t) \/ WorkerCloseStream(t) \/ WorkerClearStream(t)
        \/ WorkerTerminate(t) \/ WorkerClearPa(t)

\* ------------------------------------------------------------ texts

\* A text is a sequence of characters; "a" stands for any letter and " " for
\* any whitespace character.
Chars == {"a", " "}
Texts(n) == UNION {[1..k -> Chars] : k \in 0..n}

RECURSIVE LStrip(_)
LStrip(s) == IF s # <<>> /\ Head(s) = " " THEN LStrip(Tail(s)) ELSE s
RECURSIVE RStrip(_)
RStrip(s) == IF s # <<>> /\ s[Len(s)] = " "
             THEN RStrip(SubSeq(s, 1, Len(s) - 1)) ELSE s
\* str.strip()
Strip(s) == RStrip(LStrip(s))
\* len(str.split())
WordCount(s) ==
    Cardinality({i \in 1..Len(s) : s[i] # " " /\ (i = 1 \/ s[i - 1] = " ")})

\* A TranscriptionResult; confidence in tenths. None carries the reason the
\* code printed.
Result(text, confidence, language) ==
    [kind |-> "result", text |-> text, confidence |-> confidence,
     language |-> language]
NoResult(why) == [kind |-> "none", why |-> why]

\* ------------------------------------------------------------ WhisperAPI

\* What the POST of whisper_api.py:53 can come to: an exception (transport
\* failure, unreadable file), no response at all, or a response with a
\* status and a JSON body whose "text" and "language" may be absent.
RemoteResponses ==
    {[kind |-> k, status |-> 0, hasText |-> FALSE, text |-> <<>>,
      language |-> "absent"] : k \in {"exception", "never"}}
    \cup {[kind |-> "http", status |-> 500, hasText |-> FALSE, text |-> <<>>,
           language |-> "absent"]}
    \cup {[kind |-> "http", status |-> 200, hasText |-> TRUE, text |-> x,
           language |-> l] : x \in Texts(MaxText), l \in {"absent", "en"}}
    \cup {[kind |-> "http", status |-> 200, hasText |-> FALSE, text |-> <<>>,
           language |-> "fr"]}

\* WhisperTranscribe with the status check of line 55 lost: any response is
\* read as a transcription
WhisperTranscribe_AnyStatus(resp) ==
    IF resp.kind = "http"
    THEN Result(Strip(IF resp.hasText THEN resp.text ELSE <<>>), 9,
                IF resp.language = "absent" THEN "en-us" ELSE resp.language)
    ELSE NoResult("remote")

\* WhisperTranscribe with the strip of line 57 lost: the text is returned
\* as the response carries it
WhisperTranscribe_NoStrip(resp) ==
    IF resp.kind = "http" /\ resp.status = 200
    THEN Result(IF resp.hasText THEN resp.text ELSE <<>>, 9,
                IF resp.language = "absent" THEN "en-us" ELSE resp.language)
    ELSE NoResult("remote")

\* WhisperAPI.transcribe_file, lines 55-74
WhisperTranscribe(resp) ==
    IF resp.kind = "http" /\ resp.status = 200
    THEN Result(Strip(IF resp.hasText THEN resp.text ELSE <<>>), 9,
                IF resp.language = "absent" THEN "en-us" ELSE resp.language)
    ELSE NoResult("remote")

\* ------------------------------------------------------------ TranscriptionService

\* EstimateConfidence with the bounds of lines 256 and 258 off by one
EstimateConfidence_OffByOne(text) ==
    IF text = <<>> THEN 0
    ELSE LET word_count == WordCount(text)
         IN IF word_count = 0 THEN 0
            ELSE IF word_count <= 3 THEN 6
            ELSE IF word_count <= 10 THEN 8
            ELSE 9

\* _estimate_confidence, lines 247-261
EstimateConfidence(text) ==
    IF text = <<>> THEN 0
    ELSE LET word_count == WordCount(text)
         IN IF word_count = 0 THEN 0
            ELSE IF word_count < 3 THEN 6
            ELSE IF word_count < 10 THEN 8
            ELSE 9

\* Texts passed to _estimate_confidence: n words of one or two letters,
\* separated by gap whitespace characters, with lead before and trail after
Pad(k) == [i \in 1..k |-> " "]
RECURSIVE Phrase(_, _, _)
Phrase(n, word, gap) ==
    IF n = 0 THEN <<>>
    ELSE IF n = 1 THEN word
    ELSE word \o Pad(gap) \o Phrase(n - 1, word, gap)
EstimateInputs ==
    {[words |-> n, text |-> Pad(lead) \o Phrase(n, word, gap) \o Pad(trail)] :
        n \in 0..MaxWords, word \in {<<"a">>, <<"a", "a">>},
        gap \in 1..(MaxPad + 1), lead \in 0..MaxPad, trail \in 0..MaxPad}

\* no call of _estimate_confidence on its own is made
NoEstimate == est_text = <<>> /\ est_words = 0 /\ est_out = <<>>

\* _estimate_confidence called on a text, lines 238-261
EstimateCall ==
    /\ est_out = <<>>
    /\ est_out' = <<EstimateConfidence(est_text)>>
    /\ UNCHANGED <<est_text, est_words>>
    /\ UNCHANGED <<recVars, trVars, fmVars, lvlVars>>

\* One chunk of audio as the decoder hears it: the text it adds to the
\* running hypothesis, and whether it ends an utterance (AcceptWaveform
\* returns true).
HypTexts == {<<>>, <<"a">>, <<" ", "a">>}
Chunks == [words : HypTexts, boundary : BOOLEAN]
ChunkSeqs == UNION {[1..k -> Chunks] : k \in 0..MaxChunks}

\* An input path: whether a file is there, what wave.open finds in it, and
\* the audio it holds.
Formats == {"ok", "stereo", "8bit", "rate", "notwav"}
Files == [exists : {TRUE}, format : Formats, chunks : ChunkSeqs]
         \cup [exists : {FALSE}, format : {"notwav"}, chunks : {<<>>}]

NoFile == [exists |-> FALSE, format |-> "notwav", chunks |-> <<>>]
NoUse == [probe |-> 0, remote |-> 0, preprocess |-> 0, accept |-> 0,
          final |-> 0]
Use(what) == used' = [used EXCEPT ![what] = @ + 1]

\* __init__, lines 53-59, with _load_model: the model loads or it does not
InitTranscribe ==
    /\ recognizer \in {"Loaded", "Unloaded"}
    /\ pending = <<>>
    /\ tpc = "idle"
    /\ top = "none"
    /\ tfile = NoFile
    /\ tchunks = <<>>
    /\ full_result = <<>>
    /\ tret = NoResult("none")
    /\ online = FALSE
    /\ remote = NoResult("none")
    /\ used = NoUse
    /\ pending0 = <<>>
    /\ tcalls = 0
    /\ preprocessed_path = "none"

\* IsAvailable with the check of line 134 lost: the service always reports
\* itself ready
IsAvailable_Always == TRUE

\* is_available, line 134
IsAvailable == recognizer = "Loaded"

Return(r) == tret' = r /\ tpc' = "done"

\* TranscribeFileBegin with the existence check of lines 169-171 lost: every
\* path goes on to the connectivity probe
TranscribeFileBegin_NoExistsCheck ==
    /\ tpc = "idle"
    /\ tcalls < MaxTCalls
    /\ tcalls' = tcalls + 1
    /\ top' = "file"
    /\ \E f \in Files : tfile' = f
    /\ tpc' = "probe"
    /\ tret' = NoResult("none")
    /\ tchunks' = <<>>
    /\ full_result' = <<>>
    /\ online' = FALSE
    /\ remote' = NoResult("none")
    /\ used' = NoUse
    /\ pending0' = pending
    /\ UNCHANGED <<recognizer, pending>>
    /\ preprocessed_path' = "none"
    /\ UNCHANGED <<recVars, estVars, fmVars, lvlVars>>

\* transcribe_file, lines 169-171: the caller passes a path
TranscribeFileBegin ==
    /\ tpc = "idle"
    /\ tcalls < MaxTCalls
    /\ tcalls' = tcalls + 1
    /\ top' = "file"
    /\ \E f \in Files :
        /\ tfile' = f
        /\ IF f.exists
           THEN tpc' = "probe" /\ tret' = NoResult("none")
           ELSE Return(NoResult("FileNotFound"))
    /\ tchunks' = <<>>
    /\ full_result' = <<>>
    /\ online' = FALSE
    /\ remote' = NoResult("none")
    /\ used' = NoUse
    /\ pending0' = pending
    /\ UNCHANGED <<recognizer, pending>>
    /\ preprocessed_path' = "none"
    /\ UNCHANGED <<recVars, estVars, fmVars, lvlVars>>

\* IsOnline with the branch of line 173 lost: the remote transcriber is tried
\* whatever the probe said
IsOnline_AlwaysRemote ==
    /\ tpc = "probe"
    /\ \E outcome \in {"200", "503", "exception", "timeout"} :
        online' = (outcome = "200")
    /\ Use("probe")
    /\ tpc' = "remote"
    /\ UNCHANGED <<recognizer, pending, top, tfile, tchunks, full_result,
                   tret, remote, pending0, tcalls>>
    /\ UNCHANGED preprocessed_path
    /\ UNCHANGED <<recVars, estVars, fmVars, lvlVars>>

\* IsOnline with the try/except of lines 24-28 lost: a failed or timed-out
\* GET raises out of transcribe_file
IsOnline_Raises ==
    /\ tpc = "probe"
    /\ Use("probe")
    /\ \E outcome \in {"200", "503", "exception", "timeout"} :
        /\ online' = (outcome = "200")
        /\ IF outcome \in {"exception", "timeout"}
           THEN Return([kind |-> "raised", why |-> "probe"])
           ELSE /\ tpc' = IF online' THEN "remote" ELSE "local"
                /\ UNCHANGED tret
    /\ UNCHANGED <<recognizer, pending, top, tfile, tchunks, full_result,
                   remote, pending0, tcalls>>
    /\ UNCHANGED preprocessed_path
    /\ UNCHANGED <<recVars, estVars, fmVars, lvlVars>>

\* What the GET of line 25 can come to: a response with a status, an
\* exception (no route, DNS, TLS), or the 5 s timeout
ProbeOutcomes == {"200", "503", "exception", "timeout"}

\* Probe with the status check of line 26 lost: any response counts as online
Probe_AnyResponse(outcome) ==
    /\ tpc = "probe"
    /\ online' = (outcome \notin {"exception", "timeout"})
    /\ Use("probe")
    /\ tpc' = IF online' THEN "remote" ELSE "local"
    /\ UNCHANGED <<recognizer, pending, top, tfile, tchunks, full_result,
                   tret, remote, pending0, tcalls>>
    /\ UNCHANGED preprocessed_path
    /\ UNCHANGED <<recVars, estVars, fmVars, lvlVars>>

\* is_online, lines 22-28, as line 173 calls it: one GET with a 5 s timeout;
\* true on status 200, false on any other status, exception or timeout
Probe(outcome) ==
    /\ tpc = "probe"
    /\ online' = (outcome = "200")
    /\ Use("probe")
    /\ tpc' = IF online' THEN "remote" ELSE "local"
    /\ UNCHANGED <<recognizer, pending, top, tfile, tchunks, full_result,
                   tret, remote, pending0, tcalls>>
    /\ UNCHANGED preprocessed_path
    /\ UNCHANGED <<recVars, estVars, fmVars, lvlVars>>

\* line 173: the probe, whatever it comes to
IsOnline == \E outcome \in ProbeOutcomes : Probe(outcome)

\* RemoteTranscribe with the remote text kept as the start of the local
\* transcript instead of being returned
RemoteTranscribe_KeepsRemoteText ==
    /\ tpc = "remote"
    /\ \E resp \in RemoteResponses :
        /\ resp.kind # "never"
        /\ remote' = WhisperTranscribe(resp)
    /\ Use("remote")
    /\ tpc' = "local"
    /\ full_result' = IF remote'.kind = "result" /\ remote'.text # <<>>
                      THEN remote'.text \o <<" ">>
                      ELSE full_result
    /\ UNCHANGED <<recognizer, pending, top, tfile, tchunks, tret, online,
                   pending0, tcalls>>
    /\ UNCHANGED preprocessed_path
    /\ UNCHANGED <<recVars, estVars, fmVars, lvlVars>>

\* RemoteTranscribe with the early return of lines 175-181 lost: the remote
\* result is obtained and the call goes on to the local recognizer
RemoteTranscribe_NoEarlyReturn ==
    /\ tpc = "remote"
    /\ \E resp \in RemoteResponses :
        /\ resp.kind # "never"
        /\ remote' = WhisperTranscribe(resp)
    /\ Use("remote")
    /\ tpc' = "local"
    /\ UNCHANGED <<recognizer, pending, top, tfile, tchunks, full_result,
                   tret, online, pending0, tcalls>>
    /\ UNCHANGED preprocessed_path
    /\ UNCHANGED <<recVars, estVars, fmVars, lvlVars>>

\* lines 174-183: the remote transcriber, its request coming to resp; its
\* result, if any, is returned
RemoteCall(resp) ==
    /\ tpc = "remote"
    /\ remote' = WhisperTranscribe(resp)
    /\ Use("remote")
    /\ IF remote'.kind = "result"
       THEN Return(Result(remote'.text, remote'.confidence, remote'.language))
       ELSE tpc' = "local" /\ UNCHANGED tret
    /\ UNCHANGED <<recognizer, pending, top, tfile, tchunks, full_result,
                   online, pending0, tcalls>>
    /\ UNCHANGED preprocessed_path
    /\ UNCHANGED <<recVars, estVars, fmVars, lvlVars>>

\* line 174, whatever answer the request gets
RemoteTranscribe ==
    \E resp \in RemoteResponses : resp.kind # "never" /\ RemoteCall(resp)

\* whisper_api.py:53: requests.post is given no timeout; a server that
\* accepts the request and never answers leaves the call waiting
RemoteHangs ==
    /\ tpc = "remote"
    /\ Use("remote")
    /\ tpc' = "waiting"
    /\ UNCHANGED <<recognizer, pending, top, tfile, tchunks, full_result,
                   tret, online, remote, pending0, tcalls>>
    /\ UNCHANGED preprocessed_path
    /\ UNCHANGED <<recVars, estVars, fmVars, lvlVars>>

\* LocalOpenOn with the try/except of lines 146-158 lost: a failing ffmpeg
\* raises into transcribe_file, whose except clause returns None
LocalOpenOn_PreprocessRaises(ffmpeg_ok) ==
    /\ tpc = "local"
    /\ IF ~IsAvailable
       THEN Return(NoResult("ServiceUnavailable")) /\ UNCHANGED <<used, tchunks>>
       ELSE /\ Use("preprocess")
            /\ IF ~ffmpeg_ok
               THEN Return(NoResult("DecodeError")) /\ UNCHANGED tchunks
               ELSE /\ tchunks' = tfile.chunks
                    /\ tpc' = "decode"
                    /\ UNCHANGED tret
    /\ UNCHANGED <<recognizer, pending, top, tfile, full_result, online,
                   remote, pending0, tcalls>>
    /\ preprocessed_path' = IF IsAvailable /\ ffmpeg_ok
                            THEN "temp_normalized.wav"
                            ELSE preprocessed_path
    /\ UNCHANGED <<recVars, estVars, fmVars, lvlVars>>

\* lines 185-202: availability, preprocess_audio (lines 146-158: the ffmpeg
\* output if ffmpeg_ok, the input path if ffmpeg failed or could not be run),
\* wave.open and the format checks. The ffmpeg output is mono 16-bit 16 kHz
\* and is heard by the decoder as the input is; an input that is no wave
\* file makes wave.open raise.
LocalOpenOn(ffmpeg_ok) ==
    /\ tpc = "local"
    /\ IF ~IsAvailable
       THEN Return(NoResult("ServiceUnavailable")) /\ UNCHANGED <<used, tchunks>>
       ELSE /\ Use("preprocess")
            /\ LET format == IF ffmpeg_ok THEN "ok" ELSE tfile.format
               IN  IF format = "notwav"
                   THEN Return(NoResult("DecodeError")) /\ UNCHANGED tchunks
                   ELSE IF format \in {"stereo", "8bit"}
                   THEN Return(NoResult("UnsupportedAudioFormat"))
                        /\ UNCHANGED tchunks
                   ELSE /\ tchunks' = tfile.chunks
                        /\ tpc' = "decode"
                        /\ UNCHANGED tret
    /\ UNCHANGED <<recognizer, pending, top, tfile, full_result, online,
                   remote, pending0, tcalls>>
    /\ preprocessed_path' = IF ~IsAvailable THEN preprocessed_path
                            ELSE IF ffmpeg_ok THEN "temp_normalized.wav"
                            ELSE "input"
    /\ UNCHANGED <<recVars, estVars, fmVars, lvlVars>>

\* line 192, whichever way ffmpeg goes
LocalOpen == \E ffmpeg_ok \in BOOLEAN : LocalOpenOn(ffmpeg_ok)

\* DecodeChunk with the branch of line 209 lost: the text of a chunk that
\* ends no utterance is appended to the transcript as well
DecodeChunk_AppendsPartial ==
    /\ tpc = "decode"
    /\ tchunks # <<>>
    /\ Use("accept")
    /\ LET data == Head(tchunks)
           hyp == pending \o data.words
           text == Strip(hyp)
       IN  /\ pending' = IF data.boundary THEN <<>> ELSE hyp
           /\ full_result' = IF text # <<>>
                             THEN full_result \o text \o <<" ">>
                             ELSE full_result
    /\ tchunks' = Tail(tchunks)
    /\ UNCHANGED <<recognizer, tpc, top, tfile, tret, online, remote,
                   pending0, tcalls>>
    /\ UNCHANGED preprocessed_path
    /\ UNCHANGED <<recVars, estVars, fmVars, lvlVars>>

\* lines 205-213: one chunk; AcceptWaveform extends the hypothesis, and at an
\* utterance boundary Result() hands it over and starts a new one
DecodeChunk ==
    /\ tpc = "decode"
    /\ tchunks # <<>>
    /\ Use("accept")
    /\ LET data == Head(tchunks)
           hyp == pending \o data.words
           text == Strip(hyp)
       IN  IF data.boundary
           THEN /\ pending' = <<>>
                /\ full_result' = IF text # <<>>
                                  THEN full_result \o text \o <<" ">>
                                  ELSE full_result
           ELSE /\ pending' = hyp
                /\ UNCHANGED full_result
    /\ tchunks' = Tail(tchunks)
    /\ UNCHANGED <<recognizer, tpc, top, tfile, tret, online, remote,
                   pending0, tcalls>>
    /\ UNCHANGED preprocessed_path
    /\ UNCHANGED <<recVars, estVars, fmVars, lvlVars>>

\* lines 234-236: AcceptWaveform raised; the hypothesis stays as it was
DecodeError ==
    /\ tpc = "decode"
    /\ tchunks # <<>>
    /\ Use("accept")
    /\ Return(NoResult("DecodeError"))
    /\ UNCHANGED <<recognizer, pending, top, tfile, tchunks, full_result,
                   online, remote, pending0, tcalls>>
    /\ UNCHANGED preprocessed_path
    /\ UNCHANGED <<recVars, estVars, fmVars, lvlVars>>

\* DecodeFinal with the final text of lines 214-217 left out of the result
DecodeFinal_DropsFinalText ==
    /\ tpc = "decode"
    /\ tchunks = <<>>
    /\ Use("final")
    /\ pending' = <<>>
    /\ LET text == Strip(full_result)
       IN  /\ full_result' = text
           /\ IF text = <<>>
              THEN Return(Result(<<>>, 0, "en-us"))
              ELSE Return(Result(text, EstimateConfidence(text), "en-us"))
    /\ UNCHANGED <<recognizer, top, tfile, tchunks, online, remote, pending0, tcalls>>
    /\ UNCHANGED preprocessed_path
    /\ UNCHANGED <<recVars, estVars, fmVars, lvlVars>>

\* lines 214-233: FinalResult() flushes the hypothesis; the accumulated text
\* is stripped and returned with its estimated confidence
DecodeFinal ==
    /\ tpc = "decode"
    /\ tchunks = <<>>
    /\ Use("final")
    /\ pending' = <<>>
    /\ LET final_text == Strip(pending)
           joined == IF final_text # <<>> THEN full_result \o final_text
                     ELSE full_result
           text == Strip(joined)
       IN  /\ full_result' = text
           /\ IF text = <<>>
              THEN Return(Result(<<>>, 0, "en-us"))
              ELSE Return(Result(text, EstimateConfidence(text), "en-us"))
    /\ UNCHANGED <<recognizer, top, tfile, tchunks, online, remote, pending0, tcalls>>
    /\ UNCHANGED preprocessed_path
    /\ UNCHANGED <<recVars, estVars, fmVars, lvlVars>>

\* transcribe_audio_data, lines 284-297, on a recognizer holding hypothesis
\* p: AcceptWaveform, then Result() at a boundary or PartialResult()
\* otherwise, then FinalResult() (what is left after Result() took the
\* utterance, or the whole hypothesis), the two joined and stripped
AudioDataText(p, data) ==
    LET hyp == p \o data.words
        text == Strip(hyp)
        final_text == IF data.boundary THEN <<>> ELSE Strip(hyp)
    IN  Strip(text \o <<" ">> \o final_text)

\* transcribe_audio_data, lines 273-319: the whole buffer is one chunk; it
\* is kept as the input of the call
TranscribeAudioData ==
    /\ tpc = "idle"
    /\ tcalls < MaxTCalls
    /\ tcalls' = tcalls + 1
    /\ top' = "data"
    /\ tchunks' = <<>>
    /\ online' = FALSE
    /\ remote' = NoResult("none")
    /\ pending0' = pending
    /\ \E data \in Chunks :
        /\ tfile' = [NoFile EXCEPT !.chunks = <<data>>]
        /\ IF ~IsAvailable
           THEN /\ Return(NoResult("ServiceUnavailable"))
                /\ used' = NoUse
                /\ UNCHANGED <<pending, full_result>>
           ELSE \E raises \in BOOLEAN :
                IF raises
                THEN /\ Return(NoResult("DecodeError"))
                     /\ used' = [NoUse EXCEPT !.accept = 1]
                     /\ UNCHANGED <<pending, full_result>>
                ELSE LET full_text == AudioDataText(pending, data)
                     IN  /\ pending' = <<>>
                         /\ used' = [NoUse EXCEPT !.accept = 1, !.final = 1]
                         /\ full_result' = full_text
                         /\ IF full_text = <<>>
                            THEN Return(Result(<<>>, 0, "en-us"))
                            ELSE Return(Result(full_text,
                                               EstimateConfidence(full_text),
                                               "en-us"))
    /\ UNCHANGED recognizer
    /\ preprocessed_path' = "none"
    /\ UNCHANGED <<recVars, estVars, fmVars, lvlVars>>

\* the caller takes the result; the service is ready for the next call, and
\* the history of the finished call is dropped
TranscribeReturn ==
    /\ tpc = "done"
    /\ tpc' = "idle"
    /\ top' = "none"
    /\ tfile' = NoFile
    /\ tchunks' = <<>>
    /\ full_result' = <<>>
    /\ tret' = NoResult("none")
    /\ online' = FALSE
    /\ remote' = NoResult("none")
    /\ used' = NoUse
    /\ pending0' = <<>>
    /\ UNCHANGED <<recognizer, pending, tcalls>>
    /\ preprocessed_path' = "none"
    /\ UNCHANGED <<recVars, estVars, fmVars, lvlVars>>

\* ------------------------------------------------------------ FileManager

chunk_size == 1024
sample_rate == 16000
SampleWidth == 2
WavHeaderBytes == 44
BytesPerSecond == 32000

FileNames == 1..MaxFiles
Days == -1..MaxDays

\* _save_audio_data, lines 180-184: the file wave.open writes is the header
\* followed by the frames joined, chunk_size samples of SampleWidth bytes each
WavSize(n) == WavHeaderBytes + n * chunk_size * SampleWidth

NoRecording == [present |-> FALSE, frames |-> 0, size_bytes |-> 0, age |-> 0]
Recording(n, age) ==
    [present |-> TRUE, frames |-> n, size_bytes |-> WavSize(n), age |-> age]

\* the recordings directory holds files the recorder wrote
Stores ==
    [FileNames -> {NoRecording}
                  \cup {Recording(n, a) : n \in 1..MaxSaved, a \in 0..MaxAge}]

Present == {f \in FileNames : fm_files[f].present}

\* DurationMs with the byte rate of 16-bit stereo
DurationMs_Stereo(size_bytes) == (size_bytes * 1000) \div (2 * BytesPerSecond)

\* list, line 76: int((size_bytes / 32000) * 1000). For the sizes WavSize
\* gives, the quotient is never within a rounding error of a whole number,
\* so the float computation truncates as the exact one does.
DurationMs(size_bytes) == (size_bytes * 1000) \div BytesPerSecond

\* list, lines 70-84: the metadata of one file
Metadata(f) ==
    [filename |-> f, size_bytes |-> fm_files[f].size_bytes,
     duration_ms |-> DurationMs(fm_files[f].size_bytes),
     age |-> fm_files[f].age]

\* list, lines 65-97: every file, newest first; files of the same age come
\* in the order os.listdir gave them, which is any order
Listings ==
    {[i \in 1..Cardinality(Present) |-> Metadata(order[i])] :
        order \in {o \in [1..Cardinality(Present) -> Present] :
                      /\ \A i, j \in DOMAIN o : i # j => o[i] # o[j]
                      /\ \A i, j \in DOMAIN o :
                            i < j => fm_files[o[i]].age <= fm_files[o[j]].age}}

NoFileManager ==
    /\ fm_files = [f \in FileNames |-> NoRecording]
    /\ fm_last = [op |-> "none"]

\* AudioRecorder._save_audio_data, lines 173-192: a buffer of n frames is
\* written to a new file in the recordings directory
SaveAudioData ==
    /\ \E f \in FileNames \ Present : \E n \in 1..MaxSaved :
        /\ fm_files' = [fm_files EXCEPT ![f] = Recording(n, 0)]
        /\ fm_last' = [op |-> "save", frames |-> n, ret |-> f]
    /\ UNCHANGED <<recVars, trVars, estVars, lvlVars>>

\* FileManager.list, lines 56-97
FmList ==
    /\ \E listing \in Listings : fm_last' = [op |-> "list", ret |-> listing]
    /\ UNCHANGED fm_files
    /\ UNCHANGED <<recVars, trVars, estVars, lvlVars>>

\* FileManager.delete, lines 99-120: os.remove may fail
FmDelete ==
    /\ \E f \in FileNames :
        IF f \in Present
        THEN \/ /\ fm_files' = [fm_files EXCEPT ![f] = NoRecording]
                /\ fm_last' = [op |-> "delete", filename |-> f, ret |-> TRUE]
             \/ /\ fm_last' = [op |-> "delete", filename |-> f, ret |-> FALSE]
                /\ UNCHANGED fm_files
        ELSE /\ fm_last' = [op |-> "delete", filename |-> f, ret |-> FALSE]
             /\ UNCHANGED fm_files
    /\ UNCHANGED <<recVars, trVars, estVars, lvlVars>>

\* FmCleanup with the guard of lines 131-132 lost
FmCleanup_NoGuard(days) ==
    /\ \E deleted \in SUBSET {f \in Present : fm_files[f].age > days} :
        /\ fm_files' = [f \in FileNames |->
                           IF f \in deleted THEN NoRecording ELSE fm_files[f]]
        /\ fm_last' = [op |-> "cleanup", days |-> days,
                       ret |-> Cardinality(deleted)]
    /\ UNCHANGED <<recVars, trVars, estVars, lvlVars>>

\* FileManager.cleanup_retention, lines 122-147: nothing for days <= 0;
\* otherwise every listed file older than the cutoff is handed to delete,
\* and those delete removed are counted
FmCleanup(days) ==
    /\ IF days <= 0
       THEN /\ fm_last' = [op |-> "cleanup", days |-> days, ret |-> 0]
            /\ UNCHANGED fm_files
       ELSE \E deleted \in SUBSET {f \in Present : fm_files[f].age > days} :
            /\ fm_files' = [f \in FileNames |->
                               IF f \in deleted THEN NoRecording
                               ELSE fm_files[f]]
            /\ fm_last' = [op |-> "cleanup", days |-> days,
                           ret |-> Cardinality(deleted)]
    /\ UNCHANGED <<recVars, trVars, estVars, lvlVars>>

CleanupRetention == \E days \in Days : FmCleanup(days)

\* ------------------------------------------------- _calculate_audio_level

Int16Max == 32767
Int16Modulus == 65536

\* Sample values of a frame: silence, the smallest amplitudes, the amplitudes
\* around the square root of 2^15, powers of two, and full scale
Samples == {0, 1, -1, 3, 4, 181, 182, 256, -256, 16384, Int16Max,
            -Int16Max - 1}
Frames == UNION {[1..k -> Samples] : k \in 1..MaxSamples}

\* A value kept in 16 bits, two's complement
WrapInt16(x) ==
    ((x + Int16Max + 1) % Int16Modulus) - (Int16Max + 1)

RECURSIVE SeqSum(_)
SeqSum(xs) == IF xs = <<>> THEN 0 ELSE Head(xs) + SeqSum(Tail(xs))

\* line 58, audio_array**2: the array is int16 (line 56) and the exponent a
\* Python int, so every square is computed and kept in int16
SquareInt16(audio_array) ==
    [i \in DOMAIN audio_array |-> WrapInt16(audio_array[i] * audio_array[i])]

\* 20 * log10(rms / 32767) > -80, for rms the root of total / n: the ratio
\* is above 10^-4, that is total * 10^8 > 32767^2 * n = 1073676289 * n
AboveFloor(total, n) ==
    total * 10000 - 107367 * n > (6289 * n) \div 10000

\* _calculate_audio_level, lines 56-64, on the samples of a frame: np.mean
\* adds the squares in float64 (the mean square is total over the number of
\* samples); the root of a negative mean is nan, and nan > 0 is false, so
\* the branch of line 60 is taken exactly when total > 0. The level is
\* given by whether it is the floor of -80 dB and, if not, by the mean
\* square it is the logarithm of.
CalculateAudioLevel(audio_array) ==
    LET total == SeqSum(SquareInt16(audio_array))
        n == Len(audio_array)
    IN  [mean_square |-> total,
         rms_positive |-> total > 0,
         floor |-> ~(total > 0 /\ AboveFloor(total, n))]

\* no call of _calculate_audio_level on its own is made
NoLevel == audio_chunk = <<>> /\ level_db = <<>>

\* line 93: the level of one frame is computed
CalculateLevelCall ==
    /\ audio_chunk # <<>>
    /\ level_db = <<>>
    /\ level_db' = <<CalculateAudioLevel(audio_chunk)>>
    /\ UNCHANGED audio_chunk
    /\ UNCHANGED <<recVars, trVars, estVars, fmVars>>

\* The recorder on its own: the service is constructed and left alone, and
\* the listener is registered, if at all, before the first start (as
\* voice_recorder_app.py:50 does). Listeners are interchangeable: it is the
\* first.
Init ==
    /\ InitRecorder /\ InitTranscribe /\ recognizer = "Loaded" /\ NoEstimate
    /\ NoFileManager /\ NoLevel
    /\ level_callback \in {None, 1}

Next == StartRecording \/ StopRecording \/ StopJoin \/ StopSave \/ Worker

Spec == Init /\ [][Next]_vars

\* The recorder with on_level called at any time between start and stop
\* calls, over sessions that do not overlap: a start is accepted only once
\* the worker of the session before has ended.
InitLevel ==
    /\ InitRecorder /\ InitTranscribe /\ recognizer = "Loaded" /\ NoEstimate
    /\ NoFileManager /\ NoLevel

NextLevel ==
    \/ OnLevel
    \/ StartRecording /\ (is_recording \/ Running = {})
    \/ StopRecording \/ StopJoin \/ StopSave \/ Worker

SpecLevel == InitLevel /\ [][NextLevel]_vars

NextTranscribe ==
    \/ TranscribeFileBegin \/ IsOnline \/ RemoteTranscribe \/ RemoteHangs
    \/ LocalOpen \/ DecodeChunk \/ DecodeError \/ DecodeFinal
    \/ TranscribeAudioData \/ TranscribeReturn

\* The service on its own: the recorder is constructed and left alone.
InitService ==
    /\ InitRecorder /\ InitTranscribe /\ level_callback = None /\ NoEstimate
    /\ NoFileManager /\ NoLevel

SpecTranscribe == InitService /\ [][NextTranscribe]_vars

\* _estimate_confidence on its own, over the texts of EstimateInputs, on a
\* service in either state
InitConfidence ==
    /\ InitRecorder /\ InitTranscribe /\ level_callback = None
    /\ \E x \in EstimateInputs : est_text = x.text /\ est_words = x.words
    /\ est_out = <<>>
    /\ NoFileManager /\ NoLevel

NextConfidence == EstimateCall

SpecConfidence == InitConfidence /\ [][NextConfidence]_vars

\* The file manager over a recordings directory that holds any recordings
\* when it is constructed, with the recorder saving new ones
InitFiles ==
    /\ InitRecorder /\ InitTranscribe /\ recognizer = "Loaded" /\ NoEstimate
    /\ level_callback = None
    /\ fm_files \in Stores
    /\ fm_last = [op |-> "none"]
    /\ NoLevel

NextFiles == SaveAudioData \/ FmList \/ FmDelete \/ CleanupRetention

SpecFiles == InitFiles /\ [][NextFiles]_vars

\* _calculate_audio_level on its own, over the frames of Frames
InitLoudness ==
    /\ InitRecorder /\ InitTranscribe /\ recognizer = "Loaded" /\ NoEstimate
    /\ level_callback = None
    /\ NoFileManager
    /\ audio_chunk \in Frames
    /\ level_db = <<>>

NextLoudness == CalculateLevelCall

SpecLoudness == InitLoudness /\ [][NextLoudness]_vars
\* ====================================================================
\* Properties
\* ====================================================================

\* A transcribe_file call on an existing file has returned
FileCallDone == tpc = "done" /\ top = "file" /\ tfile.exists

\* The utterances a recognizer holding hypothesis p commits over the chunks
\* cs, the last one being what the final flush gives
RECURSIVE Utterances(_, _)
Utterances(p, cs) ==
    IF cs = <<>> THEN <<p>>
    ELSE LET hyp == p \o Head(cs).words
         IN  IF Head(cs).boundary
             THEN <<hyp>> \o Utterances(<<>>, Tail(cs))
             ELSE Utterances(hyp, Tail(cs))

\* The non-empty stripped segments joined by single spaces
RECURSIVE JoinSegments(_)
JoinSegments(segs) ==
    IF segs = <<>> THEN <<>>
    ELSE LET seg == Strip(Head(segs))
             rest == JoinSegments(Tail(segs))
         IN  IF seg = <<>> THEN rest
             ELSE IF rest = <<>> THEN seg
             ELSE seg \o <<" ">> \o rest

\* What the local recognizer makes of the call's file, given the hypothesis
\* it held when the call began
LocalText == JoinSegments(Utterances(pending0, tfile.chunks))
LocalResult == Result(LocalText, EstimateConfidence(LocalText), "en-us")

\* The value returned is the outcome of the local path: its result, or one
\* of its own failures
ReturnedFromLocal ==
    /\ tret.kind = "result" => tret = LocalResult /\ used.final = 1
    /\ tret.kind = "none" =>
         /\ tret.why \in {"ServiceUnavailable", "UnsupportedAudioFormat",
                          "DecodeError"}
         /\ used.final = 0

\* C1: when the probe says online and the remote transcriber returns a
\* result, transcribe_file returns that result's text and language with
\* confidence 0.9, and nothing of the local path (preprocessing,
\* AcceptWaveform, FinalResult) has been invoked in the call.
C1_RemoteResultWins ==
    (FileCallDone /\ online /\ remote.kind = "result") =>
        /\ tret = Result(remote.text, 9, remote.language)
        /\ used.preprocess = 0 /\ used.accept = 0 /\ used.final = 0
        /\ pending = pending0

C1_Witness ==
    /\ FileCallDone /\ online /\ remote.kind = "result"
    /\ recognizer = "Loaded"
    /\ tfile.format = "ok" /\ Len(tfile.chunks) = MaxChunks
    /\ tret = Result(<<"a">>, 9, "en")

\* C2: with a loaded recognizer, when the probe says online and the remote
\* transcriber returns no result, the remote was tried once, the local path
\* was entered exactly once, and what is returned is the local recognizer's
\* outcome: its text, estimated confidence and language, unchanged.
C2_RemoteFailsLocalReturned ==
    (FileCallDone /\ recognizer = "Loaded" /\ online /\ remote.kind = "none") =>
        /\ used.remote = 1
        /\ used.preprocess = 1
        /\ used.final <= 1
        /\ ReturnedFromLocal

C2_Witness ==
    /\ FileCallDone /\ recognizer = "Loaded" /\ online /\ used.remote = 1
    /\ remote.kind = "none"
    /\ tret.kind = "result" /\ tret.text = <<"a", " ", "a">>
    /\ used.accept = 2

\* C3: when the probe says offline, the remote transcriber is not called in
\* that call and the value returned is the outcome of the local recognizer.
C3_OfflineLocalOnly ==
    (FileCallDone /\ used.probe = 1 /\ ~online) =>
        /\ used.remote = 0
        /\ remote = NoResult("none")
        /\ ReturnedFromLocal

C3_Witness ==
    /\ FileCallDone /\ used.probe = 1 /\ ~online
    /\ tret.kind = "result" /\ tret.text # <<>>
    /\ used.accept = MaxChunks

\* C4: every result returned, by transcribe_file through either path or by
\* transcribe_audio_data, that has empty text has confidence 0.0.
C4_EmptyTextZeroConfidence ==
    (tpc = "done" /\ tret.kind = "result" /\ tret.text = <<>>) =>
        tret.confidence = 0
\* C5: the buffer has one writer at a time and stop_recording reads it only
\* after the writer has ended: no two workers are in their capture code at
\* once, and once stop_recording has read the buffer no worker appends to
\* it or replaces it (the buffer stays as it was read).
C5_SingleWriterReadAfterJoin ==
    /\ Cardinality(Capturing) <= 1
    /\ bufferRead => audio_data = lastRead

\* C6: a stop_recording on an active session during which no frame was
\* appended returns NoAudioCaptured (and so writes no file), whichever
\* session of the recorder it is.
C6_NoFramesNoFile ==
    (cpc = "idle" /\ bufferRead /\ lastCall.op = "stop"
        /\ lastCall.ret # "NotRecording" /\ ~sessionCaptured) =>
        lastCall.ret = "NoAudioCaptured"

\* C7: a start_recording while a session is active returns AlreadyRecording,
\* starts no worker, and leaves the buffer, the stream handle, the
\* recording flag and the rest of the recorder as they were.
C7_StartWhileActive ==
    [][(is_recording /\ StartRecording) =>
          /\ lastCall' = [op |-> "start", ret |-> "AlreadyRecording"]
          /\ UNCHANGED <<is_recording, audio_data, stream, pyaudio_instance,
                         recording_thread, level_callback, wpc, streams,
                         pas, nfiles>>]_vars

C7_Witness ==
    /\ lastCall = [op |-> "start", ret |-> "AlreadyRecording"]
    /\ is_recording
    /\ Len(audio_data) = MaxFrames
    /\ stream # None /\ streams[stream] = "open"
    /\ Cardinality(Running) = 1

\* C8: a stop_recording with no session active returns NotRecording: it
\* gives no path, writes no file, neither signals nor joins a worker, and
\* leaves the recorder as it was.
C8_StopWhileIdle ==
    [][(~is_recording /\ StopRecording) =>
          /\ lastCall' = [op |-> "stop", ret |-> "NotRecording"]
          /\ cpc' = "idle"
          /\ UNCHANGED <<is_recording, audio_data, stream, pyaudio_instance,
                         recording_thread, level_callback, wpc, streams,
                         pas, nfiles, lastRead>>]_vars

C8_Witness ==
    /\ lastCall = [op |-> "stop", ret |-> "NotRecording"]
    /\ ~is_recording
    /\ audio_data # <<>>
    /\ nfiles = 1
    /\ Running = {}

\* C9: once the capture loop of the current session has ended on a read
\* error, the session is marked stopped: the recording flag is false (so the
\* next start is accepted and the next stop reports NotRecording).
C9_ReadErrorMarksStopped ==
    \A t \in Threads :
        (recording_thread = t /\ wexit[t] = "read_error" /\ wpc[t] = "dead")
            => ~is_recording

\* C10: a start_recording that succeeds with no session active has opened
\* the input stream and started exactly one capture worker by the time it
\* returns.
C10_StartOpensStream ==
    [][(~is_recording /\ StartRecording) =>
          /\ stream' # None
          /\ streams'[stream'] = "open"
          /\ Cardinality({t \in Threads : Alive(t)' /\ ~Alive(t)}) = 1]_vars

\* C11: the text transcribe_file returns is the output of exactly one
\* backend: either the remote result's text, and then the local recognizer
\* was fed nothing and flushed nothing and no local transcript was built in
\* the call, or the local recognizer's text, and then the remote gave no
\* result in the call.
C11_OneBackend ==
    (FileCallDone /\ tret.kind = "result") =>
        \/ /\ online /\ remote.kind = "result"
           /\ tret.text = remote.text
           /\ used.accept = 0 /\ used.final = 0
           /\ full_result = <<>>
           /\ pending = pending0
        \/ /\ remote.kind = "none"
           /\ tret.text = LocalText
           /\ used.final = 1

C11_Witness ==
    /\ FileCallDone /\ online /\ remote.kind = "result"
    /\ tret.text = <<"a", "a">>
    /\ recognizer = "Loaded" /\ tfile.format = "ok"
    /\ LocalText = <<"a">>

\* C12: a transcribe_file call on a path where no file exists returns the
\* FileNotFound outcome, and in that call the connectivity probe was not
\* queried, the remote transcriber was not called, and the local recognizer
\* was neither fed nor flushed (its hypothesis is as it was).
C12_MissingFileShortCircuits ==
    (tpc = "done" /\ top = "file" /\ ~tfile.exists) =>
        /\ tret = NoResult("FileNotFound")
        /\ used = NoUse
        /\ remote = NoResult("none")
        /\ pending = pending0
        /\ full_result = <<>>

\* The missing path is asked for while the recognizer still holds a
\* hypothesis from an earlier call
C12_Witness ==
    /\ tpc = "done" /\ top = "file" /\ ~tfile.exists
    /\ tret = NoResult("FileNotFound")
    /\ recognizer = "Loaded"
    /\ tcalls = 2
    /\ pending # <<>>

\* A call has returned that got as far as the local path: transcribe_file
\* when the probe said offline or the remote gave no result, or any
\* transcribe_audio_data call
ReachedLocal ==
    /\ tpc = "done"
    /\ \/ top = "data"
       \/ FileCallDone /\ used.probe = 1 /\ (~online \/ remote.kind = "none")

\* C13: with the local recognizer unloaded, every call that reaches the
\* local path returns ServiceUnavailable, and in that call nothing was
\* preprocessed and no audio was fed to or flushed from a decoder.
C13_UnloadedFailsFast ==
    (ReachedLocal /\ recognizer = "Unloaded") =>
        /\ tret = NoResult("ServiceUnavailable")
        /\ used.preprocess = 0 /\ used.accept = 0 /\ used.final = 0
        /\ pending = <<>> /\ full_result = <<>>

\* Unloaded, online, the remote tried and failed on a well-formed file
C13_Witness ==
    /\ ReachedLocal /\ recognizer = "Unloaded"
    /\ top = "file" /\ online /\ used.remote = 1
    /\ tfile.format = "ok" /\ Len(tfile.chunks) = MaxChunks
    /\ tret = NoResult("ServiceUnavailable")

\* C14: for an existing mono 16-bit file and a loaded recognizer, whatever
\* the connectivity probe came to (200, another status, an exception, a
\* timeout) and however the remote call failed (another status, a transport
\* exception), a transcribe_file call whose decoder did not itself raise
\* returns a TranscriptionResult: no network failure makes it return an
\* error or raise. The probe was queried once and the remote at most once.
C14_NetworkFailuresAbsorbed ==
    (FileCallDone /\ recognizer = "Loaded" /\ tfile.format \in {"ok", "rate"}
        /\ tret # NoResult("DecodeError")) =>
        /\ tret.kind = "result"
        /\ used.probe = 1 /\ used.remote <= 1

\* The probe said online, the remote call failed, ffmpeg was of no help on
\* a file at another sample rate, and the local transcript came back
C14_Witness ==
    /\ FileCallDone /\ recognizer = "Loaded" /\ tfile.format = "rate"
    /\ online /\ remote = NoResult("remote")
    /\ tret = Result(<<"a">>, 6, "en-us")
    /\ used.accept = 1

\* Every chunk of the call's file is silence: it adds no text to the hypothesis
AllSilence == \A i \in 1..Len(tfile.chunks) : tfile.chunks[i].words = <<>>

\* C16: a transcribe_file call that goes to the local recognizer over an
\* all-silence file, of any number of chunks (none of them adding text to
\* the hypothesis), and returns a result returns text "" with confidence
\* 0.0.
C16_SilenceGivesEmptyResult ==
    (FileCallDone /\ AllSilence /\ remote.kind = "none"
        /\ tret.kind = "result") =>
        tret = Result(<<>>, 0, "en-us")

\* C17: every TranscriptionResult returned, by transcribe_file from the
\* remote or the local path or by transcribe_audio_data, has a confidence
\* within [0, 1] (0..10 tenths) and a text that neither begins nor ends
\* with whitespace.
C17_ResultWellFormed ==
    (tpc = "done" /\ tret.kind = "result") =>
        /\ tret.confidence >= 0 /\ tret.confidence <= 10
        /\ Strip(tret.text) = tret.text
        /\ tret.text # <<>> => (Head(tret.text) # " "
                                 /\ tret.text[Len(tret.text)] # " ")

\* A local result over chunks that begin with whitespace
C17_Witness ==
    /\ FileCallDone /\ remote.kind = "none" /\ tret.kind = "result"
    /\ Len(tfile.chunks) = 2
    /\ \A i \in 1..2 : tfile.chunks[i] = [words |-> <<" ", "a">>,
                                          boundary |-> TRUE]
    /\ tret.text = <<"a", " ", "a">>
    /\ tret.confidence = 6

\* C15: _estimate_confidence gives 0.0 for a text of 0 words, 0.6 for 1-2
\* words, 0.8 for 3-9 words and 0.9 for 10 words or more, whatever the
\* whitespace around and between the words; the value depends on the text
\* alone (the same for a loaded and an unloaded service) and the text is
\* left as it was.
C15_ConfidenceByWordCount ==
    est_out # <<>> =>
        /\ est_out = <<IF est_words = 0 THEN 0
                       ELSE IF est_words <= 2 THEN 6
                       ELSE IF est_words <= 9 THEN 8
                       ELSE 9>>
        /\ \A x \in EstimateInputs :
              x.text = est_text => est_out = <<EstimateConfidence(x.text)>>
        /\ est_words \in {0, 1, 2, 3, 9, 10, 50} =>
              est_out = <<CASE est_words = 0 -> 0
                            [] est_words \in {1, 2} -> 6
                            [] est_words \in {3, 9} -> 8
                            [] est_words \in {10, 50} -> 9>>

\* 50 two-letter words with whitespace around them
C15_Witness ==
    /\ est_out = <<9>>
    /\ est_words = 50
    /\ Len(est_text) = 50 * 2 + 49 * (MaxPad + 1) + 2 * MaxPad
    /\ Head(est_text) = " "

\* The input streams open on the device
OpenStreams == {s \in Threads : streams[s] = "open"}

\* C18: the audio device is held by one capture session at a time: in every
\* reachable state at most one input stream is open, and when a worker
\* opens the stream of its session no stream of an earlier session is still
\* open, whatever the sequence of start and stop calls, stops whose join
\* timed out included.
C18_OneStreamOpen ==
    /\ Cardinality(OpenStreams) <= 1
    /\ \A t \in Threads : wpc[t] = "reset" => OpenStreams \subseteq {t}

RECURSIVE SumOf(_, _)
SumOf(f, S) ==
    IF S = {} THEN 0
    ELSE LET x == CHOOSE y \in S : TRUE
         IN  f[x] + SumOf(f, S \ {x})

\* worker t passes lines 92-94 for the frame it has just read
LevelStep(t) == wpc[t] = "level" /\ wpc'[t] # "level"

\* C19: at most one level listener is registered at a time, and on_level
\* replaces it. A listener is invoked only while it is the registered one,
\* once per step of a worker that has just appended a frame to the buffer,
\* and every such step made while a listener is registered invokes it; a
\* listener that was replaced is not invoked again. So the invocations of
\* all listeners together, with those still due for frames just appended,
\* never exceed the frames captured.
C19_ListenerPerFrame ==
    /\ [](/\ level_callback \in {None} \cup Listeners
          /\ SumOf(levelCalls, Listeners)
                + Cardinality({t \in Threads : wpc[t] = "level"})
                <= SumOf(wn, Threads))
    /\ [][/\ \A l \in Listeners :
                levelCalls'[l] # levelCalls[l] =>
                    /\ l = level_callback
                    /\ levelCalls'[l] = levelCalls[l] + 1
                    /\ \E t \in Threads : LevelStep(t)
          /\ \A t \in Threads :
                (LevelStep(t) /\ level_callback # None) =>
                    levelCalls'[level_callback] = levelCalls[level_callback] + 1
          /\ OnLevel => (level_callback' \in Listeners
                         /\ levelCalls' = levelCalls)]_vars

\* The first listener got the call for the first frame, was replaced while
\* the worker was reading, and the second got the call for the second frame
C19_Witness ==
    /\ level_callback = 2
    /\ levelCalls[1] = 1 /\ levelCalls[2] = 1
    /\ \E t \in Threads : wn[t] = 2 /\ wpc[t] = "loop"
    /\ Len(audio_data) = 2

\* 0o600: read and write for the owner, nothing for group and other
OwnerOnly == {"ur", "uw"}

\* C20: when stop_recording returns the path of the file it has written,
\* that file's permissions are owner-only: read and write for the owner,
\* nothing for group and other.
C20_SavedFileOwnerOnly ==
    (cpc = "idle" /\ lastCall.op = "stop" /\ lastCall.ret = "Path") =>
        lastCall.mode = OwnerOnly

\* C21: cleanup_retention with zero or a negative number of days returns 0
\* and deletes no file (the directory is as it was), whatever the ages of
\* the recordings in it.
C21_CleanupNonPositiveNoOp ==
    /\ []((fm_last.op = "cleanup" /\ fm_last.days <= 0) => fm_last.ret = 0)
    /\ [][\A days \in Days :
            (days <= 0 /\ FmCleanup(days)) =>
                /\ fm_files' = fm_files
                /\ fm_last' = [op |-> "cleanup", days |-> days, ret |-> 0]]_vars

\* cleanup_retention(0) over a full directory of the oldest recordings
C21_Witness ==
    /\ fm_last = [op |-> "cleanup", days |-> 0, ret |-> 0]
    /\ Present = FileNames
    /\ \A f \in FileNames : fm_files[f].age = MaxAge

\* the duration of one captured frame, in milliseconds
FrameMs == (chunk_size * 1000) \div sample_rate

\* C22: for every recording saved from N >= 1 frames, the duration list
\* estimates from the size of the written file is N x 64 ms with an error
\* under 2 ms, the same for every N.
C22_DurationRoundTrip ==
    fm_last.op = "list" =>
        \A i \in DOMAIN fm_last.ret :
            LET m == fm_last.ret[i]
                N == fm_files[m.filename].frames
            IN  /\ N >= 1
                /\ m.size_bytes = WavSize(N)
                /\ m.duration_ms - N * FrameMs >= 0
                /\ m.duration_ms - N * FrameMs < 2
                /\ m.duration_ms - N * FrameMs =
                       DurationMs(WavSize(1)) - FrameMs

\* a recording of the most frames, just saved, is listed first
C22_Witness ==
    /\ fm_last.op = "list"
    /\ Len(fm_last.ret) = MaxFiles
    /\ fm_files[fm_last.ret[1].filename] = Recording(MaxSaved, 0)
    /\ fm_last.ret[1].duration_ms = MaxSaved * 64 + 1

\* C23: is_online makes one probe request; it returns true only when that
\* request completed with status 200, returns false when the request raised
\* or timed out, and in no case raises: the call that asked goes on to its
\* next step with nothing returned.
C23_ProbeNeverRaises ==
    [][\A outcome \in ProbeOutcomes :
          Probe(outcome) =>
              /\ online' => outcome = "200"
              /\ outcome \in {"exception", "timeout"} => ~online'
              /\ used'.probe = used.probe + 1
              /\ tpc' \in {"remote", "local"}
              /\ tret' = tret /\ tret.kind = "none"]_vars

\* the probe failed in a call on a service that cannot fall back: the call
\* is at the local path, with nothing returned yet
C23_Witness ==
    /\ tpc = "local" /\ top = "file" /\ ~online /\ used.probe = 1
    /\ recognizer = "Unloaded"
    /\ tret = NoResult("none")
    /\ tcalls = MaxTCalls

\* C24: WhisperAPI.transcribe_file gives a result, with confidence 0.9, only
\* when the request was answered with status 200; on any other status and
\* on any exception (transport failure, unreadable input file) it gives no
\* result and does not raise: its caller goes on to the local path.
C24_RemoteNoResultOnFailure ==
    [][\A resp \in RemoteResponses :
          (resp.kind # "never" /\ RemoteCall(resp)) =>
              /\ remote'.kind = "result" <=>
                    (resp.kind = "http" /\ resp.status = 200)
              /\ remote'.kind = "result" => remote'.confidence = 9
              /\ remote'.kind # "result" =>
                    /\ remote' = NoResult("remote")
                    /\ tpc' = "local" /\ tret' = tret
              /\ used'.remote = used.remote + 1]_vars

\* the remote call failed on a stereo file; the call is at the local path
C24_Witness ==
    /\ tpc = "local" /\ top = "file" /\ online
    /\ remote = NoResult("remote") /\ used.remote = 1
    /\ recognizer = "Loaded" /\ tfile.format = "stereo"
    /\ tret = NoResult("none")

\* C25: in the local path, an input that is not mono or not 16-bit is
\* rejected as UnsupportedAudioFormat with no chunk fed to the recognizer,
\* whereas an input that is mono 16-bit at another sample rate is decoded
\* and, unless the decoder itself raises, yields a result.
C25_FormatHardErrorRateWarning ==
    (FileCallDone /\ used.preprocess = 1) =>
        /\ tfile.format \in {"stereo", "8bit"} =>
              /\ tret = NoResult("UnsupportedAudioFormat")
              /\ used.accept = 0 /\ used.final = 0
        /\ (tfile.format = "rate" /\ tret # NoResult("DecodeError")) =>
              /\ tret.kind = "result"
              /\ used.accept = Len(tfile.chunks) /\ used.final = 1

\* C26: every network exchange of transcribe_file ends within a time limit,
\* so no call is ever left waiting, with no step that would return it to
\* its caller, on a request the remote endpoint accepted and never answers.
C26_NoUnboundedWait ==
    tpc = "waiting" => ENABLED NextTranscribe

\* The frames worker t has read, in the order it read them, as its own
\* session's frames
SessionFrames(t) == [k \in 1..wn[t] |-> Frame(t, k, t)]

\* C27: when the worker of the session has ended by the time stop_recording
\* reads the buffer (the join did not time out), the file stop_recording
\* writes holds exactly the frames that worker read during the session,
\* each once and in the order read.
C27_FileIsSessionFrames ==
    [][(StopSave /\ recording_thread # None /\ ~Alive(recording_thread)
            /\ lastCall'.ret = "Path") =>
          lastRead' = SessionFrames(recording_thread)]_vars

\* C28: once the capture loop of the session has ended on a read error, the
\* stop_recording that follows returns no path and writes no file (the
\* error shows to the caller only as "no file produced").
C28_ReadErrorNoFile ==
    [][(StopSave /\ recording_thread # None
            /\ wexit[recording_thread] = "read_error") =>
          /\ lastCall'.op = "stop" /\ lastCall'.ret # "Path"
          /\ nfiles' = nfiles]_vars

\* C29: the result of a local transcription call depends on that call's
\* audio alone: it is what a recognizer holding no hypothesis makes of it,
\* for transcribe_file through the local path and for transcribe_audio_data,
\* whatever calls were made on the service before, calls that failed inside
\* the decode loop included.
C29_DecoderStateTransient ==
    (tpc = "done" /\ tret.kind = "result" /\ remote.kind = "none") =>
        /\ top = "file" =>
              tret.text = JoinSegments(Utterances(<<>>, tfile.chunks))
        /\ top = "data" =>
              tret.text = AudioDataText(<<>>, tfile.chunks[1])

\* C30: transcribe_audio_data returns, for a buffer, the text and the
\* confidence the local branch of transcribe_file returns for a file
\* holding the same audio: the committed segments followed by the final
\* flush, each hypothesis counted once.
C30_RawFramesAsFile ==
    (tpc = "done" /\ top = "data" /\ tret.kind = "result") =>
        tret = LocalResult

\* The chunks of the call's file that the decode loop has consumed
Consumed == SubSeq(tfile.chunks, 1, Len(tfile.chunks) - Len(tchunks))

\* The segments committed at utterance boundaries: every utterance but the
\* one still open
Committed(p, cs) ==
    LET u == Utterances(p, cs) IN SubSeq(u, 1, Len(u) - 1)

\* C31: in the local path of transcribe_file the transcript is built from
\* the recognizer's segments alone: while chunks are consumed it holds the
\* non-empty segments committed so far, in chunk order, joined by single
\* spaces, and a chunk that ends no utterance adds nothing to it; the final
\* flush is made once, after the last chunk, and the text returned is the
\* committed segments followed by the flushed one, joined by single spaces
\* and trimmed.
C31_TextIsJoinedSegments ==
    /\ (top = "file" /\ tpc = "decode") =>
          /\ used.final = 0
          /\ used.accept = Len(Consumed)
          /\ Consumed \o tchunks = tfile.chunks
          /\ Strip(full_result) = JoinSegments(Committed(pending0, Consumed))
          /\ pending = Utterances(pending0, Consumed)[Len(Utterances(pending0, Consumed))]
    /\ (top = "file" /\ used.final > 0) =>
          /\ used.final = 1
          /\ tchunks = <<>>
          /\ used.accept = Len(tfile.chunks)
          /\ tret = Result(JoinSegments(Utterances(pending0, tfile.chunks)),
                           tret.confidence, "en-us")

\* a committed segment and a flushed one: the text is the two, one space
\* between them
C31_Witness ==
    /\ FileCallDone /\ tret.kind = "result" /\ used.final = 1
    /\ pending0 = <<>>
    /\ tfile.chunks = <<[words |-> <<"a">>, boundary |-> TRUE],
                        [words |-> <<" ", "a">>, boundary |-> FALSE]>>
    /\ tret.text = <<"a", " ", "a">>

\* The call's file, as it is, passes wave.open and the format checks of
\* lines 193-200
OriginalAccepted == tfile.format \in {"ok", "rate"}

\* C32: when ffmpeg fails, preprocess_audio hands back the input path and
\* nothing is returned for that alone: the local path opens the original
\* file, decodes its chunks from the first one and returns the result of
\* decoding them. A call that took this way returns no result only for the
\* original file's own format or for an error raised by the decoder.
C32_PreprocessFailureFallsBack ==
    /\ []((top = "file" /\ preprocessed_path = "input") =>
            /\ used.preprocess = 1
            /\ tpc \in {"decode", "done"}
            /\ tpc = "decode" =>
                  OriginalAccepted /\ Consumed \o tchunks = tfile.chunks
            /\ (tpc = "done" /\ OriginalAccepted) =>
                  \/ tret = LocalResult /\ used.final = 1
                  \/ /\ tret = NoResult("DecodeError")
                     /\ used.final = 0 /\ used.accept = Len(Consumed) + 1
            /\ (tpc = "done" /\ ~OriginalAccepted) =>
                  /\ used.accept = 0
                  /\ tret = NoResult(IF tfile.format = "notwav"
                                     THEN "DecodeError"
                                     ELSE "UnsupportedAudioFormat"))
    /\ [][(IsAvailable /\ LocalOpenOn(FALSE)) =>
             /\ preprocessed_path' = "input"
             /\ OriginalAccepted =>
                    tpc' = "decode" /\ tchunks' = tfile.chunks /\ tret' = tret]_vars

\* ffmpeg failed on a mono 16-bit file of two chunks: the call has returned
\* the text decoded from the file itself
C32_Witness ==
    /\ FileCallDone /\ preprocessed_path = "input"
    /\ tfile.format = "ok" /\ Len(tfile.chunks) = MaxChunks
    /\ tret.kind = "result" /\ tret.text = <<"a", " ", "a">>
    /\ used.accept = MaxChunks /\ used.final = 1

\* The sum of the squares of the samples, with no limit of width
ExactSquareSum(audio_array) ==
    SeqSum([i \in DOMAIN audio_array |-> audio_array[i] * audio_array[i]])

\* C33: the level of a frame is computed from the exact mean of the squares
\* of its samples, no square wrapping around in 16 bits, so the rms = 0
\* branch reports the floor only for a frame whose samples are all zero.
C33_MeanSquareExact ==
    level_db # <<>> =>
        /\ level_db[1].mean_square = ExactSquareSum(audio_chunk)
        /\ ~level_db[1].rms_positive <=>
               \A i \in DOMAIN audio_chunk : audio_chunk[i] = 0

\* C34: a file written by stop_recording holds only frames appended to the
\* buffer after the start_recording of the session being stopped, none that
\* was captured in a session before it, in every interleaving of the
\* caller with the workers, joins that time out included.
C34_NoEarlierSessionFrames ==
    [][(StopSave /\ lastCall'.ret = "Path") =>
          \A i \in DOMAIN lastRead' :
              lastRead'[i][3] = recording_thread]_vars

\* C35: a capture worker that has terminated, whether on the stop signal, on
\* a read error or on a failure to open the device, has left nothing of its
\* own open: the stream it opened is closed and the PyAudio instance it
\* created is terminated; and at the step it terminates, the recorder's
\* stream and pyaudio_instance fields are cleared.
C35_WorkerExitClosesOwnStream ==
    /\ [](\A t \in Threads :
              wpc[t] = "dead" => streams[t] # "open" /\ pas[t] # "open")
    /\ [][\A t \in Threads :
              (wpc[t] # "dead" /\ wpc'[t] = "dead") =>
                  stream' = None /\ pyaudio_instance' = None]_vars
====
